---- MODULE Spec2Model ----
(***************************************************************************)
(* Benchmark sweep harness of scripts/plot_runtime_vs_n2.py (the n1-sweep, *)
(* exact and approximate solver) and scripts/plot_approx_runtime_vs_n2.py  *)
(* (the n2-sweep, approximate solver only).                                *)
(*                                                                         *)
(* A run is one execution of main(): ensure_built, then for every sweep    *)
(* point the provisioning step, the exact step (n1-sweep only) and the     *)
(* approximate step, then plot_runtime.  The file system (binaries under   *)
(* BIN_DIR, instance files under GEN_DIR) outlives a run, so a second run  *)
(* of the same script starts from the files the first one left.            *)
(***************************************************************************)
EXTENDS Integers, Sequences, FiniteSets, TLC

\* ---------------------------------------------------------------- bounds
MaxStart == 2      \* --n1-start / --n2-start is drawn from 1..MaxStart
MaxEnd == 2        \* --n1-end / --n2-end is drawn from 0..MaxEnd
MaxStep == 2       \* --n1-step / --n2-step is drawn from 1..MaxStep
MaxRuns == 2       \* number of successive runs of the script

\* ------------------------------------------------------ program constants
TIMEOUT_STATUS == 124     \* status run_cmd returns on TimeoutExpired
EXIT_FAILURE == 1         \* sys.exit(1), and the status of an uncaught exception

Scripts == {"n1sweep", "n2sweep"}

\* the fixed size: --n2 of the n1-sweep, --n1 of the n2-sweep
FixedSizes == {2}

\* (density_g, density_h, seed): the defaults of parse_args, and another
\* choice given on the command line
DefaultParams == [density_g |-> 35, density_h |-> 20, seed |-> 12345]
GenParams == { DefaultParams, [density_g |-> 50, density_h |-> 20, seed |-> 7] }

\* exit codes an external process returns by itself
ExitCodes == {0, 1, 124}

\* Optional[float]: None, or a float measured in ticks
None == [some |-> FALSE, val |-> 0]
Some(v) == [some |-> TRUE, val |-> v]
\* time.perf_counter() differences: zero (a clock anomaly) or positive
Elapsed == {0, 1}

\* ----------------------------------------------------------------- state
VARIABLES
  script,        \* which of the two scripts is run
  args,          \* the parsed command line
  n_values,      \* n1_values / n2_values
  pc,            \* position in main()
  idx,           \* 1-based index of the sweep point the loop is at
  exact_times,   \* exact_times
  approx_times,  \* approx_times
  exact_failed,  \* exact_failed
  bins,          \* names of the files that exist under BIN_DIR
  fs,            \* instance paths that exist under GEN_DIR
  exit_status,   \* exit status of the process, -1 while it runs
  figure,        \* what this run saved with plt.savefig
  calls,         \* this run's provisioning steps and solver steps, in order
  last,          \* what the last run_cmd call returned
  run,           \* number of the current run
  ensured,       \* keys whose provisioning step returned in an earlier run
  generated,     \* paths an earlier run started the generator for
  alive          \* spawned processes that are still running after run_cmd returned

vars == <<script, args, n_values, pc, idx, exact_times, approx_times,
          exact_failed, bins, fs, exit_status, figure, calls, last, run,
          ensured, generated, alive>>

\* ------------------------------------------------------- pure functions

\* list(range(start, stop, step)) for step > 0
PyRange(start, stop, step) ==
  LET n == IF stop > start THEN (stop - start + step - 1) \div step ELSE 0
  IN  [i \in 1..n |-> start + (i - 1) * step]

\* list(range(args.start, args.end + 1, args.step)) with a forgotten + 1
SizeSweepExclusive(a) == PyRange(a.start, a.end, a.step)

\* n1_values = list(range(args.n1_start, args.n1_end + 1, args.n1_step))
SizeSweep(a) == PyRange(a.start, a.end + 1, a.step)

\* the names ensure_built looks for under BIN_DIR
Required(s) ==
  IF s = "n1sweep" THEN {"exact-solver", "approx-solver", "input-generator"}
                   ELSE {"approx_solver", "input-generator"}

\* the executable time_solver_approx starts
ApproxBin(s) == IF s = "n1sweep" THEN "approx-solver" ELSE "approx_solver"

\* a path that also depends on the seed
InstancePathSeeded(n1, n2) == <<n1, n2, args.seed>>

\* GEN_DIR / f"generated_{n1}_{n2}.txt"
InstancePath(n1, n2) == <<n1, n2>>

\* what an external process does: exit by itself, or run past the timeout
ProcBehaviours ==
  [kind : {"exit"}, code : ExitCodes] \cup {[kind |-> "hang", code |-> 0]}
ExitBehaviours == [kind : {"exit"}, code : ExitCodes]

NoCall == [who |-> "none", timed_out |-> FALSE, status |-> 0, out |-> ""]

\* run_cmd that hands the timeout back as a successful status
run_cmd_timeout_zero(who, beh) ==
  IF beh.kind = "hang"
    THEN [who |-> who, timed_out |-> TRUE, status |-> 0,
          out |-> "TimeoutExpired"]
    ELSE [who |-> who, timed_out |-> FALSE, status |-> beh.code,
          out |-> "stdout"]

\* run_cmd, for an executable that exists: (proc.returncode, proc.stdout),
\* or (124, "TimeoutExpired: ...") when subprocess.run raises TimeoutExpired
run_cmd(who, beh) ==
  IF beh.kind = "hang"
    THEN [who |-> who, timed_out |-> TRUE, status |-> TIMEOUT_STATUS,
          out |-> "TimeoutExpired"]
    ELSE [who |-> who, timed_out |-> FALSE, status |-> beh.code,
          out |-> "stdout"]

\* a runner that returns on timeout without killing the child
left_alive_no_kill(who, beh) == IF beh.kind = "hang" THEN {who} ELSE {}

\* what run_cmd leaves running when it returns: subprocess.run waits for the
\* child to exit, and on timeout kills it and waits for it before it raises
\* TimeoutExpired, so nothing
left_alive(who, beh) == {}

\* the sizes of the sweep point at index i
PointN1(i) == IF script = "n1sweep" THEN n_values[i] ELSE args.fixed
PointN2(i) == IF script = "n1sweep" THEN args.fixed ELSE n_values[i]
PointPath(i) == InstancePath(PointN1(i), PointN2(i))

NoFigure == [written |-> FALSE, lines |-> {}]

Call(who, i, res) == [who |-> who, idx |-> i, path |-> PointPath(i), res |-> res]

\* ------------------------------------------------------------------ Init
ArgSets ==
  [start : 1..MaxStart, end : 0..MaxEnd, step : 1..MaxStep,
   fixed : FixedSizes,
   density_g : {p.density_g : p \in GenParams},
   density_h : {p.density_h : p \in GenParams},
   seed : {p.seed : p \in GenParams}]

\* the renderer is given sweeps one point longer
RenderArgSets ==
  [start : 1..MaxStart, end : 0..(MaxEnd + 1), step : 1..MaxStep,
   fixed : FixedSizes,
   density_g : {DefaultParams.density_g},
   density_h : {DefaultParams.density_h},
   seed : {DefaultParams.seed}]

ParamsOf(a) == [density_g |-> a.density_g, density_h |-> a.density_h, seed |-> a.seed]

Init ==
  /\ script \in Scripts
  /\ args \in {a \in ArgSets : ParamsOf(a) = DefaultParams}
  /\ n_values = SizeSweep(args)
  /\ pc = "ensure_built"
  /\ idx = 1
  /\ exact_times = <<>>
  /\ approx_times = <<>>
  /\ exact_failed = FALSE
  /\ bins \in SUBSET Required(script)
  /\ fs \in SUBSET {InstancePath(IF script = "n1sweep" THEN n_values[i] ELSE args.fixed,
                                 IF script = "n1sweep" THEN args.fixed ELSE n_values[i]) :
                      i \in DOMAIN n_values}
  /\ exit_status = -1
  /\ figure = NoFigure
  /\ calls = <<>>
  /\ last = NoCall
  /\ run = 1
  /\ ensured = {}
  /\ generated = {}
  /\ alive = {}

\* the uncaught exception or sys.exit(1) that ends the process
Abort ==
  /\ pc' = "exit"
  /\ exit_status' = EXIT_FAILURE

\* an off-by-one loop that leaves out the last sweep point
LoopAtShort(i) == IF i < Len(n_values) THEN "provision" ELSE "plot"

\* the `for` statement: the next sweep point, or the code after the loop
LoopAt(i) == IF i <= Len(n_values) THEN "provision" ELSE "plot"

\* ---------------------------------------------------------- ensure_built
ensure_built ==
  /\ pc = "ensure_built"
  /\ LET need_build == \E name \in Required(script) : name \notin bins
     IN IF ~need_build
          THEN /\ pc' = LoopAt(1)
               /\ UNCHANGED <<bins, last, exit_status, alive>>
          ELSE \E beh \in ExitBehaviours, built \in SUBSET Required(script) :
                 LET r == run_cmd("build", beh)
                 IN /\ last' = r
                    /\ alive' = alive \cup left_alive("build", beh)
                    /\ IF r.status # 0
                         THEN Abort /\ UNCHANGED bins
                         ELSE /\ pc' = LoopAt(1)
                              /\ bins' = bins \cup built
                              /\ UNCHANGED exit_status
  /\ UNCHANGED <<script, args, n_values, idx, exact_times, approx_times,
                 exact_failed, fs, figure, calls, run, ensured, generated>>

\* ------------------------------------------------- provisioning step
\* an existence check that never finds the file
instance_exists_never(path) == FALSE

\* a lookup that reports every path as present
instance_exists_always(path) == TRUE

\* a lookup that answers the opposite of the file system
instance_exists_inverted(path) == path \notin fs

\* instance_path.exists()
instance_exists(path) == path \in fs

\* a generator failure that is only printed
generation_failure_ignored(code) == FALSE

\* generate_instance: `if code != 0: ... raise RuntimeError(...)`
generation_raises(code) == code # 0

\* the key and the file of the provisioning step at sweep index i
Ensured(i) == [n1 |-> PointN1(i), n2 |-> PointN2(i), path |-> PointPath(i)]

AfterProvision == IF script = "n1sweep" THEN "exact" ELSE "approx"

\* input-generator (not part of the scripts): it writes the --output file
\* when it exits 0; when it fails it may or may not leave a file behind
generator_leaves_file(status, wrote) == status = 0 \/ wrote

\* the body of generate_instance for the sweep point at idx
generate_instance ==
  IF "input-generator" \notin bins
    THEN \* subprocess.run raises FileNotFoundError, which run_cmd lets through
         /\ calls' = Append(calls, Call("gen", idx, "raise"))
         /\ Abort
         /\ UNCHANGED <<fs, last, alive>>
    ELSE \E beh \in ExitBehaviours, wrote \in BOOLEAN :
           LET r == run_cmd("gen", beh)
               created == generator_leaves_file(r.status, wrote)
           IN /\ last' = r
              /\ alive' = alive \cup left_alive("gen", beh)
              /\ fs' = IF created THEN fs \cup {PointPath(idx)} ELSE fs
              /\ IF generation_raises(r.status)
                   THEN /\ calls' = Append(calls, Call("gen", idx, "fail"))
                        /\ Abort
                   ELSE /\ calls' = Append(calls,
                              Call("gen", idx,
                                   IF r.status = 0 THEN "ok" ELSE "fail"))
                        /\ pc' = AfterProvision
                        /\ UNCHANGED exit_status

\* main: the existence check and generate_instance of one sweep point
Provision ==
  /\ pc = "provision"
  /\ IF instance_exists(PointPath(idx))
       THEN /\ calls' = Append(calls, Call("hit", idx, "ok"))
            /\ pc' = AfterProvision
            /\ UNCHANGED <<fs, last, exit_status, alive>>
       ELSE generate_instance
  /\ UNCHANGED <<script, args, n_values, idx, exact_times, approx_times,
                 exact_failed, bins, figure, run, ensured, generated>>

\* ------------------------------------------------------------ solver steps
\* a classification that only knows exit code 1 as a failure
time_solver_result_only_one(code, elapsed) ==
  IF code = 1 THEN None ELSE Some(elapsed)

\* time_solver_exact / time_solver_approx: `if code != 0: return None`,
\* `return elapsed`
time_solver_result(code, elapsed) ==
  IF code # 0 THEN None ELSE Some(elapsed)

\* an exact step without the early stop
exact_always_attempted(failed) == TRUE

\* main: `if not exact_failed:`
exact_is_attempted(failed) == ~failed

\* a flag that is never set
exact_failed_never(failed, t) == failed

\* a flag that a non-positive duration sets as well
exact_failed_on_anomaly(failed, t) ==
  IF t = None \/ t.val <= 0 THEN TRUE ELSE failed

\* main: `if t_exact is None: exact_failed = True`
exact_failed_after(failed, t) == IF t = None THEN TRUE ELSE failed

\* main: the exact-solver step of one sweep point (n1-sweep only)
ExactStep ==
  /\ pc = "exact"
  /\ IF exact_is_attempted(exact_failed)
       THEN IF "exact-solver" \notin bins
              THEN /\ calls' = Append(calls, Call("exact", idx, "raise"))
                   /\ Abort
                   /\ UNCHANGED <<exact_times, exact_failed, last, alive>>
              ELSE \E beh \in ProcBehaviours, elapsed \in Elapsed :
                     LET r == run_cmd("exact", beh)
                         t_exact == time_solver_result(r.status, elapsed)
                     IN /\ last' = r
                        /\ alive' = alive \cup left_alive("exact", beh)
                        /\ exact_failed' = exact_failed_after(exact_failed, t_exact)
                        /\ exact_times' = Append(exact_times, t_exact)
                        /\ calls' = Append(calls,
                              Call("exact", idx,
                                   IF r.status = 0 THEN "ok" ELSE "fail"))
                        /\ pc' = "approx"
                        /\ UNCHANGED exit_status
       ELSE /\ exact_times' = Append(exact_times, None)
            /\ calls' = Append(calls, Call("skip", idx, "fail"))
            /\ pc' = "approx"
            /\ UNCHANGED <<exact_failed, last, exit_status, alive>>
  /\ UNCHANGED <<script, args, n_values, idx, approx_times, bins, fs, figure,
                 run, ensured, generated>>

\* main: the approximate-solver step of one sweep point, and the loop's
\* advance to the next point
ApproxStep ==
  /\ pc = "approx"
  /\ IF ApproxBin(script) \notin bins
       THEN /\ calls' = Append(calls, Call("approx", idx, "raise"))
            /\ Abort
            /\ UNCHANGED <<approx_times, last, idx, alive>>
       ELSE \E beh \in ProcBehaviours, elapsed \in Elapsed :
              LET r == run_cmd("approx", beh)
                  t_approx == time_solver_result(r.status, elapsed)
              IN /\ last' = r
                 /\ alive' = alive \cup left_alive("approx", beh)
                 /\ approx_times' = Append(approx_times, t_approx)
                 /\ calls' = Append(calls,
                       Call("approx", idx,
                            IF r.status = 0 THEN "ok" ELSE "fail"))
                 /\ idx' = idx + 1
                 /\ pc' = LoopAt(idx + 1)
                 /\ UNCHANGED exit_status
  /\ UNCHANGED <<script, args, n_values, exact_times, exact_failed, bins, fs,
                 figure, run, ensured, generated>>

\* ---------------------------------------------------------------- renderer
Min(a, b) == IF a < b THEN a ELSE b

\* a mask that keeps every value that is present
RECURSIVE mask_vals_present(_, _)
mask_vals_present(xs, ys) ==
  LET n == Min(Len(xs), Len(ys))
  IN IF n = 0 THEN <<<<>>, <<>>>>
     ELSE LET m == mask_vals_present(SubSeq(xs, 1, n - 1), SubSeq(ys, 1, n - 1))
          IN IF ys[n].some
               THEN <<Append(m[1], xs[n]), Append(m[2], ys[n].val)>>
               ELSE m

\* plot_runtime.mask_vals: for x, y in zip(xs, ys): keep y is not None and y > 0
RECURSIVE mask_vals(_, _)
mask_vals(xs, ys) ==
  LET n == Min(Len(xs), Len(ys))
  IN IF n = 0 THEN <<<<>>, <<>>>>
     ELSE LET m == mask_vals(SubSeq(xs, 1, n - 1), SubSeq(ys, 1, n - 1))
          IN IF ys[n].some /\ ys[n].val > 0
               THEN <<Append(m[1], xs[n]), Append(m[2], ys[n].val)>>
               ELSE m

\* one plt.plot call, made only `if x_exact:` / `if x_approx:` / `if xs:`
Line(label, m) ==
  IF m[1] # <<>> THEN {[label |-> label, xs |-> m[1], ys |-> m[2]]} ELSE {}

\* plot_runtime of plot_runtime_vs_n2.py: the lines drawn, then savefig
plot_runtime(values, e_times, a_times) ==
  [written |-> TRUE,
   lines |-> Line("Exact", mask_vals(values, e_times))
             \cup Line("Approximation", mask_vals(values, a_times))]

\* plot_runtime of plot_approx_runtime_vs_n2.py: the same mask, written inline
plot_runtime_approx(values, a_times) ==
  [written |-> TRUE,
   lines |-> Line("Approximation", mask_vals(values, a_times))]

\* main: the code after the loop
PlotStep ==
  /\ pc = "plot"
  /\ figure' = IF script = "n1sweep"
                 THEN plot_runtime(n_values, exact_times, approx_times)
                 ELSE plot_runtime_approx(n_values, approx_times)
  /\ pc' = "done"
  /\ exit_status' = 0
  /\ UNCHANGED <<script, args, n_values, idx, exact_times, approx_times,
                 exact_failed, bins, fs, calls, last, run, ensured, generated,
                 alive>>

\* --------------------------------------------------------------- next run
\* the same script is started again with the same sweep, possibly with other
\* densities and seed; BIN_DIR and GEN_DIR are as the last run left them
Restart ==
  /\ pc \in {"done", "exit"}
  /\ run < MaxRuns
  /\ run' = run + 1
  /\ \E p \in GenParams :
       args' = [args EXCEPT !.density_g = p.density_g,
                            !.density_h = p.density_h, !.seed = p.seed]
  /\ pc' = "ensure_built"
  /\ idx' = 1
  /\ exact_times' = <<>>
  /\ approx_times' = <<>>
  /\ exact_failed' = FALSE
  /\ exit_status' = -1
  /\ figure' = NoFigure
  /\ calls' = <<>>
  /\ last' = NoCall
  /\ ensured' = ensured \cup
       {Ensured(calls[j].idx) :
          j \in {k \in DOMAIN calls : calls[k].who \in {"hit", "gen"}
                                      /\ calls[k].res = "ok"}}
  /\ generated' = generated \cup
       {calls[j].path :
          j \in {k \in DOMAIN calls : calls[k].who = "gen"
                                      /\ calls[k].res # "raise"}}
  /\ UNCHANGED <<script, n_values, bins, fs, alive>>

Next ==
  \/ ensure_built
  \/ Provision
  \/ ExactStep
  \/ ApproxStep
  \/ PlotStep
  \/ Restart

Spec == Init /\ [][Next]_vars

\* ------------------------------------------------ renderer on any table
\* plot_runtime takes any List[Optional[float]]: the table here is arbitrary,
\* negative durations included, and the only step is the code after the loop
RenderValues == {None} \cup {Some(v) : v \in {-1, 0, 1}}

InitRender ==
  /\ script \in Scripts
  /\ args \in RenderArgSets
  /\ n_values = SizeSweep(args)
  /\ pc = "plot"
  /\ idx = Len(n_values) + 1
  /\ exact_times \in IF script = "n1sweep"
                       THEN [DOMAIN n_values -> RenderValues] ELSE {<<>>}
  /\ approx_times \in [DOMAIN n_values -> RenderValues]
  /\ exact_failed = FALSE
  /\ bins = Required(script)
  /\ fs = {}
  /\ exit_status = -1
  /\ figure = NoFigure
  /\ calls = <<>>
  /\ last = NoCall
  /\ run = 1
  /\ ensured = {}
  /\ generated = {}
  /\ alive = {}

NextRender == PlotStep

SpecRender == InitRender /\ [][NextRender]_vars

\* ------------------------------------------------------------- properties
CallsOf(who, i) == {j \in DOMAIN calls : calls[j].who = who /\ calls[j].idx = i}
Spawned(j) == calls[j].who \in {"gen", "exact", "approx"} /\ calls[j].res # "raise"

\* C1: in the n1-sweep, once the exact outcome at sweep index i is Failure,
\* the exact outcome at every later index is Failure and no exact-solver
\* process is started at any later index.
C1_EarlyStopMonotone ==
  script = "n1sweep" =>
    \A i \in DOMAIN exact_times :
      exact_times[i] = None =>
        /\ \A j \in DOMAIN exact_times : j > i => exact_times[j] = None
        /\ \A j \in DOMAIN calls : calls[j].idx > i => calls[j].who # "exact"

C1_Witness ==
  /\ script = "n1sweep"
  /\ exact_times = <<None, None>>
  /\ CallsOf("exact", 1) # {} /\ CallsOf("skip", 2) # {}
  /\ CallsOf("exact", 2) = {}
  /\ approx_times = <<Some(1), Some(1)>>
  /\ pc = "done"

\* C2: at every sweep point whose provisioning step returned, the
\* approximate solver is invoked exactly once before the run leaves the point.
C2_ApproxAlwaysAttempted ==
  \A i \in DOMAIN n_values :
    /\ Cardinality(CallsOf("approx", i)) <= 1
    /\ ( /\ \E j \in DOMAIN calls :
              calls[j].who \in {"hit", "gen"} /\ calls[j].idx = i /\ calls[j].res = "ok"
         /\ (idx > i \/ pc \in {"plot", "done", "exit"}) )
       => Cardinality(CallsOf("approx", i)) = 1

\* C3: a generator run that returns a non-zero status is the last thing the
\* run does: the process has exited with a non-zero status, no solver and no
\* generator was started after it, and no figure was written.
C3_GenerationFailureFatal ==
  \A j \in DOMAIN calls :
    (calls[j].who = "gen" /\ calls[j].res = "fail") =>
      /\ j = Len(calls)
      /\ pc = "exit"
      /\ exit_status # 0 /\ exit_status = EXIT_FAILURE
      /\ ~figure.written

C3_Witness ==
  /\ Len(calls) >= 3
  /\ calls[Len(calls)].who = "gen" /\ calls[Len(calls)].res = "fail"
  /\ calls[Len(calls)].idx = 2
  /\ pc = "exit"

\* C4 as stated: over all provisioning steps for one target path, the
\* generator is invoked at most once.
C4_GeneratorAtMostOncePerPath ==
  \A j \in DOMAIN calls : Spawned(j) /\ calls[j].who = "gen" =>
    calls[j].path \notin generated

\* C4 amended: a provisioning step for a path whose file an earlier
\* provisioning step found or created is a no-op: it starts no process,
\* changes no file and goes straight on to the solvers.
C4_ProvisionOfEnsuredIsNoOp ==
  [][ (pc = "provision" /\ \E e \in ensured : e.path = PointPath(idx))
        => (fs' = fs /\ last' = last /\ pc' = AfterProvision
            /\ calls' = Append(calls, Call("hit", idx, "ok"))) ]_vars

C4_Witness ==
  /\ run = 2
  /\ \E j \in DOMAIN calls :
       /\ calls[j].who = "hit"
       /\ calls[j].path \in generated
       /\ \E e \in ensured : e.path = calls[j].path

CeilDiv(a, b) == -((-a) \div b)
StrictlyIncreasing(seq) ==
  \A i \in DOMAIN seq, j \in DOMAIN seq : i < j => seq[i] < seq[j]
\* the largest value <= end reachable from start by the step
LargestReachable(a) ==
  CHOOSE v \in a.start..a.end :
    /\ (v - a.start) % a.step = 0
    /\ \A w \in a.start..a.end : (w - a.start) % a.step = 0 => w <= v
SweepShape(a, seq) ==
  /\ StrictlyIncreasing(seq)
  /\ Len(seq) = CeilDiv(a.end - a.start + 1, a.step)
  /\ Len(seq) >= 1
  /\ seq[1] = a.start
  /\ seq[Len(seq)] = LargestReachable(a)

\* C5 as stated: for every (start, end, step) with step > 0 the sweep is
\* strictly increasing, has length ceil((end - start + 1) / step), starts at
\* start and ends at the largest value <= end reachable by the step.
C5_SweepShapeAllArgs ==
  args.step > 0 => SweepShape(args, n_values)

\* C5 amended: the same for every (start, end, step) with step > 0 and
\* start <= end; with end < start the sweep is empty.
C5_SweepShape ==
  args.step > 0 =>
    /\ args.start <= args.end => SweepShape(args, n_values)
    /\ args.start > args.end => n_values = <<>>

C5_Witness ==
  /\ args.start = 1 /\ args.end = 2 /\ args.step = 2
  /\ n_values = <<1>>
  /\ Len(approx_times) = 1
  /\ pc = "done"

\* C6 as stated: the status alone tells a timeout from a process exit: a call
\* made with a timeout (a solver call) returns the timeout status exactly
\* when it timed out.
C6_TimeoutStatusReserved ==
  last.who \in {"exact", "approx"} =>
    (last.status = TIMEOUT_STATUS <=> last.timed_out)

\* C6 amended: a call that timed out returns status 124 and the synthetic
\* message; 124 is not zero, so a call that returns status 0 did not time out.
C6_TimeoutStatusNonZero ==
  /\ last.timed_out =>
       /\ last.status = TIMEOUT_STATUS
       /\ last.status # 0
       /\ last.out = "TimeoutExpired"
  /\ (last.who # "none" /\ last.status = 0) => ~last.timed_out

C6_Witness ==
  /\ last.timed_out /\ last.who = "exact"
  /\ exact_times # <<>> /\ exact_times[Len(exact_times)] = None

Outcomes == {None} \cup {Some(e) : e \in Elapsed}

\* C7: a solver step records Failure exactly when run_cmd returned a non-zero
\* status (a non-zero exit or the timeout status) and Success(elapsed) exactly
\* when it returned zero; the table holds nothing but None and durations.
C7_Classification ==
  /\ \A i \in DOMAIN exact_times : exact_times[i] \in Outcomes
  /\ \A i \in DOMAIN approx_times : approx_times[i] \in Outcomes
  /\ \A j \in DOMAIN calls :
       /\ (calls[j].who = "exact" /\ calls[j].res # "raise") =>
            (exact_times[calls[j].idx] = None <=> calls[j].res = "fail")
       /\ (calls[j].who = "approx" /\ calls[j].res # "raise") =>
            (approx_times[calls[j].idx] = None <=> calls[j].res = "fail")
  /\ (last.who = "exact" /\ exact_times # <<>>) =>
       (exact_times[Len(exact_times)] = None <=> last.status # 0)
  /\ (last.who = "approx" /\ approx_times # <<>>) =>
       (approx_times[Len(approx_times)] = None <=> last.status # 0)

C7_Witness ==
  /\ last.who = "approx" /\ last.status = TIMEOUT_STATUS /\ ~last.timed_out
  /\ Len(approx_times) = 2
  /\ approx_times[1] = Some(0) /\ approx_times[2] = None
  /\ script = "n1sweep" /\ exact_times[1] = None

\* the indices of a series that survive the mask, and the k-th of them
Kept(times) == {i \in DOMAIN times : times[i].some /\ times[i].val > 0}
KthKept(times, k) ==
  CHOOSE i \in Kept(times) : Cardinality({m \in Kept(times) : m <= i}) = k
SeriesRendered(label, times) ==
  LET ls == {l \in figure.lines : l.label = label}
  IN IF Kept(times) = {}
       THEN ls = {}
       ELSE /\ Cardinality(ls) = 1
            /\ \A l \in ls :
                 /\ Len(l.xs) = Cardinality(Kept(times))
                 /\ Len(l.ys) = Cardinality(Kept(times))
                 /\ \A k \in 1..Len(l.xs) :
                      /\ l.xs[k] = n_values[KthKept(times, k)]
                      /\ l.ys[k] = times[KthKept(times, k)].val
                      /\ l.ys[k] > 0

\* C8: the figure has, for every series, exactly the (size, elapsed) pairs
\* whose elapsed is present and > 0, in ascending size order; a series with no
\* such pair has no line and no legend entry; n positive values give n points.
C8_Masking ==
  figure.written =>
    /\ SeriesRendered("Approximation", approx_times)
    /\ script = "n1sweep" => SeriesRendered("Exact", exact_times)
    /\ script = "n2sweep" => \A l \in figure.lines : l.label = "Approximation"

C8_Witness ==
  /\ figure.written /\ script = "n1sweep"
  /\ Len(approx_times) = 3
  /\ approx_times[1] = Some(1) /\ approx_times[2] = Some(-1)
  /\ approx_times[3] = Some(1)
  /\ exact_times = <<None, Some(0), Some(-1)>>
  /\ figure.lines = {[label |-> "Approximation", xs |-> <<1, 3>>, ys |-> <<1, 1>>]}

\* C9: a sweep point with the same (n1, n2) as a key an earlier run ensured
\* resolves to the same file, starts no generator and hands that same path to
\* the solvers, whatever densities and seed the two runs were given.
C9_CacheIgnoresParams ==
  \A e \in ensured :
    \A j \in DOMAIN calls :
      (PointN1(calls[j].idx) = e.n1 /\ PointN2(calls[j].idx) = e.n2) =>
        /\ calls[j].path = e.path
        /\ calls[j].who # "gen"

\* the first run had the default densities and seed, the second has others
C9_Witness ==
  \E e \in ensured :
    /\ run = 2
    /\ ParamsOf(args) # DefaultParams
    /\ e.path \in generated
    /\ \E j \in DOMAIN calls : calls[j].who = "hit" /\ calls[j].path = e.path
    /\ \E j \in DOMAIN calls :
         calls[j].who = "approx" /\ calls[j].res = "ok" /\ calls[j].path = e.path

\* C10: no generator or solver process is started unless every required
\* binary is present under BIN_DIR.
C10_NoSpawnUnlessBinariesPresent ==
  \A j \in DOMAIN calls : Spawned(j) => Required(script) \subseteq bins

\* the loop is between two sweep points, or past the last one
AtLoopBoundary == pc \in {"provision", "plot", "done"}

\* C11: a run whose build check passed and whose generator runs all
\* succeeded does not abort: the process exits with a failure status only
\* after a failed build or a failed generator run, whatever the solvers did.
C11_SolverFailuresNeverAbort ==
  pc = "exit" =>
    \/ calls = <<>> /\ last.who = "build" /\ last.status # 0
    \/ calls # <<>> /\ calls[Len(calls)].who = "gen"
                    /\ calls[Len(calls)].res # "ok"

\* C12: between sweep points every series of the script has one entry per
\* processed point, the entries are those of the solver steps in sweep order,
\* a step only appends to a series, and a completed sweep leaves every series
\* as long as the sweep.
C12_TableShape ==
  /\ [](/\ AtLoopBoundary =>
             /\ Len(approx_times) = idx - 1
             /\ Len(exact_times) = IF script = "n1sweep" THEN idx - 1 ELSE 0
        /\ pc \in {"plot", "done"} =>
             /\ Len(approx_times) = Len(n_values)
             /\ script = "n1sweep" => Len(exact_times) = Len(n_values)
        /\ DOMAIN approx_times =
             {calls[j].idx : j \in {k \in DOMAIN calls :
                 calls[k].who = "approx" /\ calls[k].res # "raise"}}
        /\ DOMAIN exact_times =
             {calls[j].idx : j \in {k \in DOMAIN calls :
                 calls[k].who \in {"exact", "skip"} /\ calls[k].res # "raise"}})
  /\ [][run' = run =>
          /\ Len(approx_times') \in {Len(approx_times), Len(approx_times) + 1}
          /\ SubSeq(approx_times', 1, Len(approx_times)) = approx_times
          /\ Len(exact_times') \in {Len(exact_times), Len(exact_times) + 1}
          /\ SubSeq(exact_times', 1, Len(exact_times)) = exact_times]_vars

C12_Witness ==
  /\ script = "n1sweep" /\ pc = "done"
  /\ Len(n_values) = 2
  /\ exact_times = <<Some(1), None>>
  /\ approx_times = <<None, Some(1)>>

\* C13: no run_cmd call raises to its caller.
C13_RunCmdNeverRaises ==
  \A j \in DOMAIN calls : calls[j].res # "raise"

\* C14: the early-stop flag is false when the loop begins, is true exactly
\* when the exact column holds a Failure, becomes true in the step where the
\* exact solver returned non-zero, and within a run never returns to false.
C14_FlagLatch ==
  /\ [](/\ pc \in {"build", "provision"} /\ idx = 1 => ~exact_failed
        /\ exact_failed <=> \E i \in DOMAIN exact_times : exact_times[i] = None
        /\ \A i, j \in DOMAIN exact_times :
             i < j /\ exact_times[i] = None => exact_times[j] = None)
  /\ [][run' = run =>
          /\ exact_failed => exact_failed'
          /\ ~exact_failed /\ exact_failed' =>
               /\ pc = "exact"
               /\ last'.who = "exact" /\ last'.status # 0
               /\ exact_times' = Append(exact_times, None)]_vars

C14_Witness ==
  /\ script = "n1sweep" /\ pc = "done"
  /\ exact_failed
  /\ exact_times = <<Some(0), None>>
  /\ CallsOf("skip", 2) = {}

\* C15: a solver is invoked at a sweep point only after that point's
\* provisioning step completed, and the instance file of the point exists
\* when the solver process is spawned.
C15_InstanceBeforeSolve ==
  /\ [](\A j \in DOMAIN calls :
          calls[j].who \in {"exact", "approx"} =>
            \E k \in 1..(j - 1) : /\ calls[k].idx = calls[j].idx
                                  /\ calls[k].who \in {"hit", "gen"}
                                  /\ calls[k].res = "ok")
  /\ [][/\ pc \in {"exact", "approx"}
         /\ Len(calls') = Len(calls) + 1
         /\ calls'[Len(calls')].who \in {"exact", "approx"}
         /\ calls'[Len(calls')].res # "raise"
         => PointPath(idx) \in fs]_vars

C15_Witness ==
  /\ script = "n1sweep"
  /\ Len(calls) >= 3
  /\ calls[1].who = "gen" /\ calls[1].res = "ok"
  /\ calls[2].who = "exact" /\ calls[2].res = "ok" /\ calls[2].idx = 1
  /\ calls[3].who = "approx" /\ calls[3].res = "ok" /\ calls[3].idx = 1
  /\ calls[1].path \in fs

\* C16: no step removes an instance file, the generator is started only for
\* a path at which no file exists, and within a run at most once per path.
C16_FilesOnlyAdded ==
  /\ [](\A j, k \in DOMAIN calls :
          /\ calls[j].who = "gen" /\ calls[k].who = "gen"
          /\ calls[j].path = calls[k].path
          => j = k)
  /\ [][/\ fs \subseteq fs'
         /\ Len(calls') = Len(calls) + 1 /\ calls'[Len(calls')].who = "gen"
            => /\ PointPath(idx) \notin fs
               /\ fs' \subseteq fs \cup {PointPath(idx)}]_vars

C16_Witness ==
  /\ Len(calls) >= 3
  /\ \E j, k \in DOMAIN calls :
       /\ calls[j].who = "hit" /\ calls[k].who = "gen" /\ calls[k].res = "ok"
       /\ calls[j].path # calls[k].path
       /\ {calls[j].path, calls[k].path} \subseteq fs

C18_NonPositiveSuccessDoesNotStop ==
  script = "n1sweep" =>
    \A i \in DOMAIN exact_times :
      exact_times[i].some /\ exact_times[i].val <= 0 =>
        /\ i = Len(exact_times) => ~exact_failed
        /\ CallsOf("skip", i + 1) = {}
        /\ Len(exact_times) > i => CallsOf("exact", i + 1) # {}
        /\ figure.written =>
             \A l \in figure.lines :
               l.label = "Exact" =>
                 \A k \in DOMAIN l.xs : l.xs[k] # n_values[i]

C18_Witness ==
  /\ script = "n1sweep" /\ pc = "done" /\ figure.written
  /\ exact_times = <<Some(0), Some(1)>>
  /\ CallsOf("exact", 2) # {}
  /\ \E l \in figure.lines :
       l.label = "Exact" /\ l.xs = <<n_values[2]>>
====
